---- MODULE Spec2Model ----
(***************************************************************************)
(* A model of PJSMod_Questionnaire.js: the SurveyQuestionsModule (survey   *)
(* sequencer and per-question state machine) with its two input classes,   *)
(* DiscreteInput and ContinuousInput.                                      *)
(*                                                                         *)
(* Encoding of JavaScript values.  A string is a tuple of one-character    *)
(* strings ("OK" is <<"O","K">>), so that slice, += and toUpperCase are    *)
(* computed and not assumed.  null and undefined are the tuples Null and   *)
(* Undefined, whose single element is not a character.  A number is an     *)
(* integer; a numeric field that holds null or undefined holds NullNum or  *)
(* UndefinedNum.  The result of Array.find is a tuple of length 0          *)
(* (undefined) or 1 (the element found).                                   *)
(***************************************************************************)
EXTENDS Integers, Sequences, FiniteSets, TLC

VARIABLES
    pc,                 \* the scheduler's position: [run, qi, task]
    keyBuffer,          \* psychoJS.eventManager: keys pressed and not yet consumed
    clock,              \* this.clock: time elapsed since the last clock.reset()
    question,           \* this.question, the prompt TextStim: [text, status, autoDraw]
    currentInput,       \* this.currentInput: the name of the input in use
    discrete,           \* this.inputTypes["DISCRETE"]
    continuous,         \* this.inputTypes["CONTINUOUS"]
    survey_set,         \* this.survey_set
    survey_run_status,  \* this.survey_run_status
    linger,             \* this.linger
    currentData,        \* this.currentData
    specify,            \* this.specify
    skipIndex,          \* this.skipIndex
    trialStage,         \* this.trialStage
    sink,               \* the categories handed to recordUnstructuredData / addData
    nAnswers,           \* history: the optionSelected calls made for the current question
    begun,              \* history: the categories of the questions that began
                        \* without being skipped, in order
    last,               \* history: the last step's task, the event it returned, and
                        \* the record it handed to the data sink, if any
    instructionsCache,  \* InstructionsModule: name -> [resources, currentIndex]
    currInstr,          \* InstructionsModule: the name of the cache entry
                        \* this.currInstr refers to
    slideFinished,      \* InstructionsModule: this.slideFinished
    image,              \* InstructionsModule: this.image, [image, autoDraw]
    ipc                 \* the position of an instructions scheduler: [trial, task]

\* the variables of SurveyQuestionsModule and of its scheduler
surveyVars == <<pc, clock, question, currentInput, discrete, continuous,
                survey_set, survey_run_status, linger, currentData, specify,
                skipIndex, trialStage, sink, nAnswers, begun>>

\* the variables of InstructionsModule and of its scheduler
instrVars == <<instructionsCache, currInstr, slideFinished, image, ipc>>

vars == <<pc, keyBuffer, clock, question, currentInput, discrete, continuous,
          survey_set, survey_run_status, linger, currentData, specify,
          skipIndex, trialStage, sink, nAnswers, begun, last,
          instructionsCache, currInstr, slideFinished, image, ipc>>

-----------------------------------------------------------------------------
(* Bounds of the model *)

\* the keyboard buffer holds at most MaxBuf unconsumed key presses
MaxBuf == 2
\* the clock is observed up to MaxClock ticks after a reset
MaxClock == 2
\* an instruction set has at most MaxSlides slides
MaxSlides == 3

-----------------------------------------------------------------------------
(* Constants of the program *)

SURVEY_CONTINUING == 0
SURVEY_SKIPPING == 1
SURVEY_BEGIN_SKIP == 2

TAKING_DISCRETE == 1
TAKING_CONTINUOUS == 2
DISPLAY_RESPONSE == 3

MAX_INSTRUCTIONS == 200

Null == <<"null">>
Undefined == <<"undefined">>
NullNum == -1
UndefinedNum == -2

\* value == null in JavaScript: true of null and of undefined
LooseNull(v) == v = Null \/ v = Undefined

\* PsychoJS.Status
NOT_STARTED == "NOT_STARTED"
STARTED == "STARTED"
STOPPED == "STOPPED"

\* Scheduler.Event
NEXT == "NEXT"
FLIP_REPEAT == "FLIP_REPEAT"

-----------------------------------------------------------------------------
(* Strings *)

LowerCaseLetters ==
    <<"a","b","c","d","e","f","g","h","i","j","k","l","m",
      "n","o","p","q","r","s","t","u","v","w","x","y","z">>
UpperCaseLetters ==
    <<"A","B","C","D","E","F","G","H","I","J","K","L","M",
      "N","O","P","Q","R","S","T","U","V","W","X","Y","Z">>

UpperChar(c) ==
    IF \E i \in 1..26 : LowerCaseLetters[i] = c
    THEN UpperCaseLetters[CHOOSE i \in 1..26 : LowerCaseLetters[i] = c]
    ELSE c

LowerChar(c) ==
    IF \E i \in 1..26 : UpperCaseLetters[i] = c
    THEN LowerCaseLetters[CHOOSE i \in 1..26 : UpperCaseLetters[i] = c]
    ELSE c

\* String.prototype.toUpperCase / toLowerCase
toUpperCase(s) == [i \in 1..Len(s) |-> UpperChar(s[i])]
toLowerCase(s) == [i \in 1..Len(s) |-> LowerChar(s[i])]

\* s.slice(0, -1)
SliceDropLast(s) == IF Len(s) = 0 THEN s ELSE SubSeq(s, 1, Len(s) - 1)

\* Array.prototype.find on a list of {key: ...} entries
Find(list, k) ==
    LET hits == SelectSeq(list, LAMBDA el : el.key = k)
    IN  IF Len(hits) = 0 THEN <<>> ELSE <<hits[1]>>

\* the key names used by the model
K_a == <<"a">>
K_b == <<"b">>
K_1 == <<"1">>
K_minus == <<"m","i","n","u","s">>
K_space == <<"s","p","a","c","e">>
K_return == <<"r","e","t","u","r","n">>
K_enter == <<"e","n","t","e","r">>
K_backspace == <<"b","a","c","k","s","p","a","c","e">>
K_n == <<"n">>
K_f == <<"f">>

\* the possible continuous key lists, cut down to the keys of the model
LETTERS == <<K_a, K_b, K_minus, K_space>>
FUNCTIONALITY == <<K_return, K_backspace, K_enter>>
NUMBERS == <<K_1>>

Range(s) == {s[i] : i \in 1..Len(s)}

-----------------------------------------------------------------------------
(* The survey resources: the objects _serverManager.getResource returns,   *)
(* in the format the comment of _generateSurveyQuestionsLoop describes.    *)
(* "a || []" of _buildLoopStimuli is applied here: a missing specify or    *)
(* skips list is the empty list.                                           *)

DiscreteSpec(inputs, sp, sk) ==
    [type |-> "DISCRETE", inputs |-> inputs, specify |-> sp, skips |-> sk,
     keyList |-> "", maxLength |-> UndefinedNum]

ContinuousSpec(keyList, maxLength, sp) ==
    [type |-> "CONTINUOUS", inputs |-> <<>>, specify |-> sp, skips |-> <<>>,
     keyList |-> keyList, maxLength |-> maxLength]

YesNo == << [key |-> K_a, value |-> <<"Y">>], [key |-> K_b, value |-> <<"N">>] >>

\* a discrete follow-up that ends a specify chain
LeafDiscrete(k) ==
    [key |-> k, question |-> <<"W","h","y">>,
     input |-> DiscreteSpec(YesNo, <<>>, <<>>)]

\* a continuous follow-up whose answer "a" asks one more discrete question
ElaborateContinuous(k) ==
    [key |-> k, question |-> <<"E","l","a","b">>,
     input |-> ContinuousSpec("BOTH", 2, << LeafDiscrete(<<"a">>) >>)]

SURVEY_1 ==
    [set |-> <<"A">>, linger |-> 1, instructions |-> <<"I","n","s","t","r">>,
     questions |-> <<
        [index |-> <<"1">>, question |-> <<"Q","1">>,
         input |-> DiscreteSpec(YesNo,
                      << ElaborateContinuous(K_a) >>,
                      << [key |-> K_b, index |-> <<"3">>] >>)],
        [index |-> <<"2">>, question |-> <<"Q","2">>,
         input |-> ContinuousSpec("LETTERS", 2,
                      << LeafDiscrete(<<"a">>), LeafDiscrete(<<"B">>) >>)],
        [index |-> <<"3">>, question |-> <<"Q","3">>,
         input |-> DiscreteSpec(YesNo, <<>>, <<>>)]
     >>]

SURVEY_2 ==
    [set |-> <<"B">>, linger |-> 2, instructions |-> <<>>,
     questions |-> <<
        [index |-> <<"1">>, question |-> <<"Q","1">>,
         input |-> DiscreteSpec(YesNo,
                      << LeafDiscrete(K_a) >>,
                      << [key |-> K_a, index |-> <<"2">>] >>)],
        [index |-> <<"2">>, question |-> <<"Q","2">>,
         input |-> ContinuousSpec("NUMBERS", 1, <<>>)]
     >>]

\* a survey whose key "b" skips to an index no question carries
SURVEY_3 ==
    [set |-> <<"C">>, linger |-> 1, instructions |-> <<"M","o","r","e">>,
     questions |-> <<
        [index |-> <<"1">>, question |-> <<"Q","1">>,
         input |-> DiscreteSpec(YesNo, <<>>,
                      << [key |-> K_b, index |-> <<"9">>] >>)],
        [index |-> <<"2">>, question |-> <<"Q","2">>,
         input |-> DiscreteSpec(YesNo, <<>>, <<>>)]
     >>]

\* flowScheduler: addSurveyQuestions is called once per survey, in this order
Flow == << SURVEY_1, SURVEY_2, SURVEY_3 >>

\* the keys the respondent presses
PressKeys == {K_a, K_b, K_1, K_enter, K_backspace}

-----------------------------------------------------------------------------
(* psychoJS.eventManager *)

\* getKeys({keyList}): the buffered keys of keyList, in order; they leave the
\* buffer and the other keys stay in it
getKeys(buffer, keyList) ==
    [keys |-> SelectSeq(buffer, LAMBDA k : k \in Range(keyList)),
     rest |-> SelectSeq(buffer, LAMBDA k : k \notin Range(keyList))]

clearEvents_Nothing == keyBuffer

\* clearEvents()
clearEvents == <<>>

\* TextStim.setAutoDraw(autoDraw): MinimalStim sets status with it
StimSetAutoDraw(stim, autoDraw) ==
    [stim EXCEPT !.autoDraw = autoDraw,
                 !.status = IF autoDraw THEN STARTED ELSE STOPPED]

-----------------------------------------------------------------------------
(* class DiscreteInput, as BuiltDiscreteInput configures it *)

unactivatedColor == "black"
activatedColor == "yellow"
behavior == "isolate"

DiscreteGetKeys(d) == [i \in 1..Len(d.stimuli) |-> d.stimuli[i].key]

DiscreteBuild(inputs, sp, sk) ==
    [stimuli |-> [i \in 1..Len(inputs) |->
                    [key |-> inputs[i].key, value |-> inputs[i].value,
                     autoDraw |-> FALSE, color |-> unactivatedColor]],
     specify |-> sp,
     skips |-> sk]

DiscreteReset_Toggles(d) ==
    [d EXCEPT !.stimuli = [i \in 1..Len(d.stimuli) |->
        [d.stimuli[i] EXCEPT !.autoDraw = ~@, !.color = unactivatedColor]]]

DiscreteReset(d) ==
    [d EXCEPT !.stimuli = [i \in 1..Len(d.stimuli) |->
        [d.stimuli[i] EXCEPT !.autoDraw = FALSE, !.color = unactivatedColor]]]

DiscreteSetAutoDraw(d, autoDraw) ==
    [d EXCEPT !.stimuli = [i \in 1..Len(d.stimuli) |->
        [d.stimuli[i] EXCEPT !.autoDraw = autoDraw]]]

\* optionSelected(key): the input after the call, and the object returned
DiscreteOptionSelected(d, key) ==
    LET isolated == IF behavior = "isolate"
                    THEN [i \in 1..Len(d.stimuli) |->
                            [d.stimuli[i] EXCEPT !.autoDraw = (d.stimuli[i].key = key)]]
                    ELSE d.stimuli
        coloured == [i \in 1..Len(isolated) |->
                        IF isolated[i].key = key
                        THEN [isolated[i] EXCEPT !.color = activatedColor]
                        ELSE isolated[i]]
        chosen == CHOOSE i \in 1..Len(d.stimuli) : d.stimuli[i].key = key
    IN  [input |-> [d EXCEPT !.stimuli = coloured],
         value |-> d.stimuli[chosen].value,
         specify |-> Find(d.specify, key),
         skip |-> Find(d.skips, key)]

-----------------------------------------------------------------------------
(* class ContinuousInput *)

ContinuousBuild(c, keyList, maxLength, sp) ==
    [c EXCEPT !.keyList = keyList, !.maxLength = maxLength, !.specify = sp,
              !.text = <<>>, !.autoDraw = FALSE]

ContinuousGetKeys(c) ==
    CASE c.keyList = "NUMBERS" -> NUMBERS \o FUNCTIONALITY
      [] c.keyList = "LETTERS" -> LETTERS \o FUNCTIONALITY
      [] OTHER -> NUMBERS \o LETTERS \o FUNCTIONALITY

ContinuousReset(c) == [c EXCEPT !.text = <<>>, !.autoDraw = FALSE]

ContinuousSetAutoDraw(c, autoDraw) == [c EXCEPT !.autoDraw = autoDraw]

\* mutant: the length test lets one more character in
keyIn_NoLimit(c, keyName) ==
    IF keyName = K_backspace
    THEN [c EXCEPT !.text = SliceDropLast(c.text)]
    ELSE IF Len(c.text) <= c.maxLength
         THEN IF keyName = K_space THEN [c EXCEPT !.text = c.text \o <<" ">>]
              ELSE IF keyName = K_minus THEN [c EXCEPT !.text = c.text \o <<"-">>]
              ELSE [c EXCEPT !.text = c.text \o toUpperCase(keyName)]
         ELSE c

keyIn(c, keyName) ==
    IF keyName = K_backspace
    THEN [c EXCEPT !.text = SliceDropLast(c.text)]
    ELSE IF Len(c.text) < c.maxLength
         THEN IF keyName = K_space THEN [c EXCEPT !.text = c.text \o <<" ">>]
              ELSE IF keyName = K_minus THEN [c EXCEPT !.text = c.text \o <<"-">>]
              ELSE [c EXCEPT !.text = c.text \o toUpperCase(keyName)]
         ELSE c

ContinuousOptionSelected_Lower(c) ==
    [value |-> toLowerCase(c.text),
     specify |-> Find(c.specify, toLowerCase(c.text))]

\* optionSelected(): the object returned
ContinuousOptionSelected(c) ==
    [value |-> c.text,
     specify |-> Find(c.specify, toLowerCase(c.text))]

-----------------------------------------------------------------------------
(* class SurveyQuestionsModule *)

\* an object variable that was never assigned, and the object {}
UndefinedObject == [isUndefined |-> TRUE]
EmptyObject == [isEmpty |-> TRUE]

\* constructor argument psiTurk: the sink is psiTurk when there is one
psiTurk == TRUE

\* the text _initQuestion gives the prompt
IntroText == <<"I","n","t","r","o">>

\* this.question is the prompt TextStim of _initQuestion: it has no index
QuestionStimIndex == Undefined

\* what `last` keeps of a step: the task, the trialStage it found, the event
\* it returned and, for a hand-off to the data sink, the category and record
Step(task, event) ==
    [task |-> task, stage |-> trialStage, event |-> event,
     category |-> Undefined, data |-> UndefinedObject]

SurveyConstructed ==
    /\ pc = [run |-> 1, qi |-> 0, task |-> "beginSurveySection"]
    /\ keyBuffer = <<>>
    /\ clock = 0
    /\ question = [text |-> IntroText, status |-> NOT_STARTED, autoDraw |-> FALSE]
    /\ currentInput = "undefined"
    /\ discrete = [stimuli |-> <<>>, specify |-> <<>>, skips |-> <<>>]
    /\ continuous = [keyList |-> "", maxLength |-> 0, specify |-> <<>>,
                     text |-> <<>>, autoDraw |-> FALSE]
    /\ survey_set = Undefined
    /\ survey_run_status = UndefinedNum
    /\ linger = UndefinedNum
    /\ currentData = UndefinedObject
    /\ specify = <<>>
    /\ skipIndex = Undefined
    /\ trialStage = UndefinedNum
    /\ sink = <<>>
    /\ nAnswers = 0
    /\ begun = <<>>
    /\ last = Step("initStimuli", NEXT)

\* the InstructionsModule after its constructor and initStimuli, with the
\* instruction sets of cache added to the flow
InstructionsConstructed(cache) ==
    /\ instructionsCache = cache
    /\ currInstr = Undefined
    /\ slideFinished = FALSE
    /\ image = [image |-> Undefined, autoDraw |-> FALSE]
    /\ ipc = [trial |-> 0, task |-> "generate"]

\* an experiment of surveys only
Init == SurveyConstructed /\ InstructionsConstructed(<<>>)

\* the browser handles keyboard events and lets time pass between frames
\* only: a task that returns NEXT is followed by the next task at once
FrameBoundary == last.event = FLIP_REPEAT

\* the respondent presses a key
KeyPress ==
    /\ pc.task # "done"
    /\ FrameBoundary
    /\ Len(keyBuffer) < MaxBuf
    /\ \E k \in PressKeys : keyBuffer' = Append(keyBuffer, k)
    /\ last' = Step("keypress", last.event)
    /\ UNCHANGED <<pc, clock, question, currentInput, discrete, continuous,
                   survey_set, survey_run_status, linger, currentData, specify,
                   skipIndex, trialStage, sink,
                   nAnswers, begun>>

\* time passes
Tick ==
    /\ pc.task # "done"
    /\ FrameBoundary
    /\ clock < MaxClock
    /\ clock' = clock + 1
    /\ last' = Step("tick", last.event)
    /\ UNCHANGED <<pc, keyBuffer, question, currentInput, discrete, continuous,
                   survey_set, survey_run_status, linger, currentData, specify,
                   skipIndex, trialStage, sink,
                   nAnswers, begun>>

beginSurveySection ==
    /\ pc.task = "beginSurveySection"
    /\ LET first == question.status = NOT_STARTED
           shown == IF first THEN StimSetAutoDraw(question, TRUE) ELSE question
           got == getKeys(IF first THEN clearEvents ELSE keyBuffer,
                          <<K_enter, K_return>>)
       IN  /\ keyBuffer' = got.rest
           /\ IF Len(got.keys) > 0
              THEN /\ question' = [StimSetAutoDraw(shown, FALSE) EXCEPT
                                     !.text = <<>>, !.status = NOT_STARTED]
                   /\ survey_run_status' = SURVEY_CONTINUING
                   /\ pc' = [pc EXCEPT !.task = "generate"]
                   /\ last' = Step("beginSurveySection", NEXT)
              ELSE /\ question' = shown
                   /\ survey_run_status' = survey_run_status
                   /\ pc' = pc
                   /\ last' = Step("beginSurveySection", FLIP_REPEAT)
    /\ UNCHANGED <<clock, currentInput, discrete, continuous, survey_set, linger,
                   currentData, specify, skipIndex, trialStage, sink,
                   nAnswers, begun>>

\* the task addSurveyQuestions adds to the flow: it reads the linger and
\* schedules the survey's tasks
GenerateSurveyQuestionsLoop ==
    /\ pc.task = "generate"
    /\ linger' = Flow[pc.run].linger
    /\ pc' = [pc EXCEPT !.task = "start"]
    /\ last' = Step("_generateSurveyQuestionsLoop", NEXT)
    /\ UNCHANGED <<keyBuffer, clock, question, currentInput, discrete, continuous,
                   survey_set, survey_run_status, currentData, specify,
                   skipIndex, trialStage, sink,
                   nAnswers, begun>>

\* _SurveyDisplayInstructions() on prompt q and key buffer buf
SurveyDisplayInstructions(q, buf) ==
    IF q.text = <<>>
    THEN [question |-> q, keyBuffer |-> buf, event |-> NEXT]
    ELSE LET shown == IF q.status = NOT_STARTED
                      THEN StimSetAutoDraw(q, TRUE) ELSE q
             got == getKeys(buf, <<K_enter, K_return>>)
         IN  IF Len(got.keys) > 0
             THEN [question |-> [StimSetAutoDraw(shown, FALSE) EXCEPT
                                   !.text = <<>>, !.status = NOT_STARTED],
                   keyBuffer |-> got.rest, event |-> NEXT]
             ELSE [question |-> shown, keyBuffer |-> got.rest,
                   event |-> FLIP_REPEAT]

RunStartStatus_Kept == survey_run_status

\* the status the first task of a survey's scheduler sets
RunStartStatus == SURVEY_CONTINUING

\* the first task of a survey's scheduler
SurveyStart ==
    /\ pc.task = "start"
    /\ survey_set' = Flow[pc.run].set
    /\ survey_run_status' = RunStartStatus
    /\ LET r == SurveyDisplayInstructions(
                   [question EXCEPT !.text = Flow[pc.run].instructions],
                   keyBuffer)
       IN  /\ question' = r.question
           /\ keyBuffer' = r.keyBuffer
           /\ pc' = IF r.event = NEXT
                    THEN [pc EXCEPT !.qi = 1, !.task = "begin"] ELSE pc
           /\ last' = Step("_SurveyDisplayInstructions", r.event)
    /\ UNCHANGED <<clock, currentInput, discrete, continuous, linger,
                   currentData, specify, skipIndex, trialStage, sink,
                   nAnswers, begun>>

\* the prompt and the inputs, as _buildLoopStimuli and the loop change them
UI == [question |-> question, currentInput |-> currentInput,
       discrete |-> discrete, continuous |-> continuous]

\* _buildLoopStimuli(q) on the prompt and inputs ui
BuildLoopStimuli(q, ui) ==
    LET named == [ui EXCEPT !.question.text = q.question,
                            !.currentInput = q.input.type]
    IN  IF q.input.type = "DISCRETE"
        THEN [named EXCEPT !.discrete =
                DiscreteBuild(q.input.inputs, q.input.specify, q.input.skips)]
        ELSE IF q.input.type = "CONTINUOUS"
        THEN [named EXCEPT !.continuous =
                ContinuousBuild(ui.continuous, q.input.keyList,
                                q.input.maxLength, q.input.specify)]
        ELSE named

\* this.currentInput.getKeys()
CurrentInputGetKeys ==
    IF currentInput = "CONTINUOUS"
    THEN ContinuousGetKeys(continuous) ELSE DiscreteGetKeys(discrete)

\* the question of the list that the scheduled task was created for
ScheduledQuestion == Flow[pc.run].questions[pc.qi]

\* mutant: every question ends the skipping
ReachedSkipTarget_Always(q) == TRUE

\* the test of _SurveyQuestionBegin that ends the skipping
ReachedSkipTarget(q) == QuestionStimIndex = skipIndex

SurveyQuestionBegin ==
    /\ pc.task = "begin"
    /\ pc' = [pc EXCEPT !.task = "loop"]
    /\ last' = Step("_SurveyQuestionBegin", NEXT)
    /\ IF survey_run_status = SURVEY_SKIPPING /\ ~ReachedSkipTarget(ScheduledQuestion)
       THEN UNCHANGED <<keyBuffer, clock, question, currentInput, discrete,
                        continuous, survey_run_status, currentData, specify,
                        skipIndex, trialStage, nAnswers, begun>>
       ELSE LET q == ScheduledQuestion
                built == BuildLoopStimuli(q, UI)
            IN  /\ survey_run_status' =
                     IF survey_run_status = SURVEY_SKIPPING
                     THEN SURVEY_CONTINUING ELSE survey_run_status
                /\ clock' = 0
                /\ keyBuffer' = clearEvents
                /\ currentData' =
                     [survey |-> survey_set, question_index |-> q.index,
                      question |-> q.question, question_type |-> q.input.type,
                      choice |-> Null, RT |-> NullNum, value |-> Null,
                      specify |-> <<>>]
                /\ specify' = <<EmptyObject>>
                /\ skipIndex' = <<"n","o","n","e">>
                /\ trialStage' = 0
                /\ nAnswers' = 0
                /\ begun' = Append(begun, Flow[pc.run].set \o <<"_">> \o q.index)
                /\ question' = built.question
                /\ currentInput' = built.currentInput
                /\ discrete' = built.discrete
                /\ continuous' = built.continuous
    /\ UNCHANGED <<survey_set, linger, sink>>

\* the bookkeeping of an answer: the primary answer, or one more specify answer
RecordAnswer(data, choice, value) ==
    IF LooseNull(data.choice)
    THEN [data EXCEPT !.choice = choice, !.RT = clock, !.value = value]
    ELSE [data EXCEPT !.specify = Append(@,
            [question |-> question.text, choice |-> choice,
             RT |-> clock, value |-> value])]

\* _SurveyQuestionLoop while the survey is skipping
LoopSkipping ==
    /\ survey_run_status = SURVEY_SKIPPING
    /\ pc' = [pc EXCEPT !.task = "end"]
    /\ last' = Step("_SurveyQuestionLoop", NEXT)
    /\ UNCHANGED <<keyBuffer, clock, question, currentInput, discrete, continuous,
                   survey_run_status, currentData, specify, skipIndex,
                   trialStage, nAnswers>>

\* case 0: the question has not been drawn
LoopRender ==
    /\ survey_run_status # SURVEY_SKIPPING
    /\ trialStage = 0
    /\ question' = StimSetAutoDraw(question, TRUE)
    /\ IF currentInput = "CONTINUOUS"
       THEN /\ continuous' = ContinuousSetAutoDraw(continuous, TRUE)
            /\ discrete' = discrete
       ELSE /\ discrete' = DiscreteSetAutoDraw(discrete, TRUE)
            /\ continuous' = continuous
    /\ trialStage' = IF currentInput = "CONTINUOUS"
                     THEN TAKING_CONTINUOUS ELSE TAKING_DISCRETE
    /\ pc' = pc
    /\ last' = Step("_SurveyQuestionLoop", FLIP_REPEAT)
    /\ UNCHANGED <<keyBuffer, clock, currentInput, survey_run_status, currentData,
                   specify, skipIndex, nAnswers>>

\* mutant: the pending specify is assigned outside the test for a key
NoDiscreteSelection_ClearsSpecify ==
    /\ specify' = <<>>
    /\ UNCHANGED <<discrete, currentData, skipIndex, trialStage, clock, nAnswers>>

\* case TAKING_DISCRETE when getKeys returned no key: nothing is assigned
NoDiscreteSelection ==
    UNCHANGED <<discrete, currentData, specify, skipIndex, trialStage, clock,
                nAnswers>>

SkipCaptured_Forgets(b) ==
    IF b.skip # <<>> THEN b.skip[1].index ELSE <<"n","o","n","e">>

\* case TAKING_DISCRETE: the skip target after the selection that returned b
SkipCaptured(b) ==
    IF b.skip # <<>> THEN b.skip[1].index ELSE skipIndex

\* case TAKING_DISCRETE
LoopTakingDiscrete ==
    /\ survey_run_status # SURVEY_SKIPPING
    /\ trialStage = TAKING_DISCRETE
    /\ LET got == getKeys(keyBuffer, CurrentInputGetKeys)
       IN  /\ keyBuffer' = got.rest
           /\ IF Len(got.keys) > 0
              THEN LET key == got.keys[1]
                       b == DiscreteOptionSelected(discrete, key)
                   IN  /\ discrete' = b.input
                       /\ currentData' = RecordAnswer(currentData, key, b.value)
                       /\ specify' = b.specify
                       /\ skipIndex' = SkipCaptured(b)
                       /\ trialStage' = DISPLAY_RESPONSE
                       /\ clock' = 0
                       /\ nAnswers' = nAnswers + 1
              ELSE NoDiscreteSelection
    /\ pc' = pc
    /\ last' = Step("_SurveyQuestionLoop", FLIP_REPEAT)
    /\ UNCHANGED <<question, currentInput, continuous, survey_run_status>>

\* the key name the loop of case TAKING_CONTINUOUS reads in its i-th round
LoopKeyName(input, i) == input[1]

\* the for loop of case TAKING_CONTINUOUS from its i-th round on: the input
\* after the loop, and whether a submit key ended it
RECURSIVE TakeContinuous(_, _, _)
TakeContinuous(c, input, i) ==
    IF i > Len(input)
    THEN [input |-> c, submitted |-> FALSE]
    ELSE LET keyName == LoopKeyName(input, i)
         IN  IF keyName = K_return \/ keyName = K_enter
             THEN [input |-> c, submitted |-> TRUE]
             ELSE TakeContinuous(keyIn(c, keyName), input, i + 1)

\* case TAKING_CONTINUOUS
LoopTakingContinuous ==
    /\ survey_run_status # SURVEY_SKIPPING
    /\ trialStage = TAKING_CONTINUOUS
    /\ LET got == getKeys(keyBuffer, CurrentInputGetKeys)
           taken == TakeContinuous(continuous, got.keys, 1)
       IN  /\ keyBuffer' = got.rest
           /\ continuous' = taken.input
           /\ IF taken.submitted
              THEN LET b == ContinuousOptionSelected(taken.input)
                   IN  /\ currentData' = RecordAnswer(currentData, Undefined, b.value)
                       /\ specify' = b.specify
                       /\ trialStage' = DISPLAY_RESPONSE
                       /\ clock' = 0
                       /\ nAnswers' = nAnswers + 1
              ELSE UNCHANGED <<currentData, specify, trialStage, clock, nAnswers>>
    /\ pc' = pc
    /\ last' = Step("_SurveyQuestionLoop", FLIP_REPEAT)
    /\ UNCHANGED <<question, currentInput, discrete, survey_run_status, skipIndex>>

\* mutant: the linger ends one tick late
LingerOver_Late == clock > linger

\* the test of case DISPLAY_RESPONSE
LingerOver == clock >= linger

\* case DISPLAY_RESPONSE
LoopDisplayResponse ==
    /\ survey_run_status # SURVEY_SKIPPING
    /\ trialStage = DISPLAY_RESPONSE
    /\ IF LingerOver
       THEN LET cleared ==
                  IF currentInput = "CONTINUOUS"
                  THEN [UI EXCEPT !.continuous = ContinuousReset(continuous)]
                  ELSE [UI EXCEPT !.discrete = DiscreteReset(discrete)]
            IN  IF specify = <<>>
                THEN /\ survey_run_status' =
                          IF skipIndex # <<"n","o","n","e">>
                          THEN SURVEY_BEGIN_SKIP ELSE survey_run_status
                     /\ trialStage' = -1
                     /\ discrete' = cleared.discrete
                     /\ continuous' = cleared.continuous
                     /\ UNCHANGED <<question, currentInput, keyBuffer>>
                ELSE LET built == BuildLoopStimuli(specify[1], cleared)
                     IN  /\ question' = built.question
                         /\ currentInput' = built.currentInput
                         /\ discrete' = built.discrete
                         /\ continuous' = built.continuous
                         /\ keyBuffer' = clearEvents
                         /\ trialStage' = 0
                         /\ survey_run_status' = survey_run_status
       ELSE UNCHANGED <<question, currentInput, discrete, continuous, keyBuffer,
                        trialStage, survey_run_status>>
    /\ pc' = pc
    /\ last' = Step("_SurveyQuestionLoop", FLIP_REPEAT)
    /\ UNCHANGED <<clock, currentData, specify, skipIndex, nAnswers>>

LoopDone_Repeats ==
    /\ survey_run_status # SURVEY_SKIPPING
    /\ trialStage \notin {0, TAKING_DISCRETE, TAKING_CONTINUOUS, DISPLAY_RESPONSE}
    /\ question' = StimSetAutoDraw(question, FALSE)
    /\ pc' = pc
    /\ last' = Step("_SurveyQuestionLoop", FLIP_REPEAT)
    /\ UNCHANGED <<keyBuffer, clock, currentInput, discrete, continuous,
                   survey_run_status, currentData, specify, skipIndex,
                   trialStage, nAnswers>>

\* default: the question is done
LoopDone ==
    /\ survey_run_status # SURVEY_SKIPPING
    /\ trialStage \notin {0, TAKING_DISCRETE, TAKING_CONTINUOUS, DISPLAY_RESPONSE}
    /\ question' = StimSetAutoDraw(question, FALSE)
    /\ pc' = [pc EXCEPT !.task = "end"]
    /\ last' = Step("_SurveyQuestionLoop", NEXT)
    /\ UNCHANGED <<keyBuffer, clock, currentInput, discrete, continuous,
                   survey_run_status, currentData, specify, skipIndex,
                   trialStage, nAnswers>>

SurveyQuestionLoop ==
    /\ pc.task = "loop"
    /\ \/ LoopSkipping
       \/ LoopRender
       \/ LoopTakingDiscrete
       \/ LoopTakingContinuous
       \/ LoopDisplayResponse
       \/ LoopDone
    /\ UNCHANGED <<survey_set, linger, sink, begun>>

\* mutant: the category leaves the question index out
Category_NoIndex == survey_set

\* the category a record is handed under
Category == survey_set \o <<"_">> \o currentData.question_index

\* mutant: a question that begins a skip returns before the hand-off too
EndReturnsEarly_BeginSkip ==
    survey_run_status \in {SURVEY_SKIPPING, SURVEY_BEGIN_SKIP}

\* the test of _SurveyQuestionEnd that returns before the hand-off
EndReturnsEarly == survey_run_status = SURVEY_SKIPPING

StatusAtHandOff_Kept == survey_run_status

\* _SurveyQuestionEnd: a skip that begins starts skipping here
StatusAtHandOff ==
    IF survey_run_status = SURVEY_BEGIN_SKIP
    THEN SURVEY_SKIPPING ELSE survey_run_status

SurveyQuestionEnd ==
    /\ pc.task = "end"
    /\ pc' = [pc EXCEPT !.task = "finish"]
    /\ IF EndReturnsEarly
       THEN /\ last' = Step("_SurveyQuestionEnd", NEXT)
            /\ UNCHANGED <<survey_run_status, sink, currentData>>
       ELSE /\ survey_run_status' = StatusAtHandOff
            /\ sink' = Append(sink, [category |-> Category,
                        to |-> IF psiTurk THEN "recordUnstructuredData" ELSE "addData"])
            /\ last' = [Step("_SurveyQuestionEnd", NEXT) EXCEPT
                          !.category = Category, !.data = currentData]
            /\ currentData' = EmptyObject
    /\ UNCHANGED <<keyBuffer, clock, question, currentInput, discrete, continuous,
                   survey_set, linger, specify, skipIndex, trialStage, nAnswers,
                   begun>>

\* the task that finishes a question's iteration: the TrialHandler is never
\* iterated, so trials.finished stays false and the scheduler is never stopped;
\* the survey ends when its scheduler has no task left
FinishIteration ==
    /\ pc.task = "finish"
    /\ pc' = IF pc.qi < Len(Flow[pc.run].questions)
             THEN [pc EXCEPT !.qi = pc.qi + 1, !.task = "begin"]
             ELSE IF pc.run < Len(Flow)
             THEN [run |-> pc.run + 1, qi |-> 0, task |-> "generate"]
             ELSE [pc EXCEPT !.task = "done"]
    /\ last' = Step("finish", NEXT)
    /\ UNCHANGED <<keyBuffer, clock, question, currentInput, discrete, continuous,
                   survey_set, survey_run_status, linger, currentData, specify,
                   skipIndex, trialStage, sink,
                   nAnswers, begun>>

Next ==
    \/ KeyPress /\ UNCHANGED instrVars
    \/ Tick /\ UNCHANGED instrVars
    \/ beginSurveySection /\ UNCHANGED instrVars
    \/ GenerateSurveyQuestionsLoop /\ UNCHANGED instrVars
    \/ SurveyStart /\ UNCHANGED instrVars
    \/ SurveyQuestionBegin /\ UNCHANGED instrVars
    \/ SurveyQuestionLoop /\ UNCHANGED instrVars
    \/ SurveyQuestionEnd /\ UNCHANGED instrVars
    \/ FinishIteration /\ UNCHANGED instrVars

Spec == Init /\ [][Next]_vars

\* the task the scheduler of the flow is at
SchedulerTask ==
    \/ beginSurveySection
    \/ GenerateSurveyQuestionsLoop
    \/ SurveyStart
    \/ SurveyQuestionBegin
    \/ SurveyQuestionLoop
    \/ SurveyQuestionEnd
    \/ FinishIteration

\* the scheduler runs its current task at every frame, and time passes
FairSpec ==
    /\ Spec
    /\ WF_vars(SchedulerTask /\ UNCHANGED instrVars)
    /\ WF_vars(Tick /\ UNCHANGED instrVars)

-----------------------------------------------------------------------------
(* class InstructionsModule *)

\* an instruction set of n slides: the resource list [{name, path}, ...]
Slides(n) == [i \in 1..n |-> [name |-> <<"slide", i>>]]

\* the instructionsName of the set added to the flow
InstrName == <<"instr1">>

\* _generateInstructionsLoop, before its task runs: the cache entry of the set
CacheEntry(resources) == [resources |-> resources, currentIndex |-> 0]

\* the keyList of _InstructionsRoutineEachFrame
InstrKeys == <<K_b, K_n, K_f>>

\* the keys the reader of the instructions presses
InstrPressKeys == {K_b, K_n, K_f, K_a}

\* this.currInstr: the cache entry it refers to
CurrInstr == instructionsCache[currInstr]

\* the reader of the instructions presses a key
InstrKeyPress ==
    /\ ipc.task \notin {"done", "error"}
    /\ FrameBoundary
    /\ Len(keyBuffer) < MaxBuf
    /\ \E k \in InstrPressKeys : keyBuffer' = Append(keyBuffer, k)
    /\ last' = Step("keypress", last.event)
    /\ UNCHANGED instrVars
    /\ UNCHANGED surveyVars

TrialsScheduled_Twice == MAX_INSTRUCTIONS + MAX_INSTRUCTIONS

\* the trials "for (const _ of trials)" iterates: nReps repetitions of the
\* one undefined trial
TrialsScheduled == MAX_INSTRUCTIONS

\* the task addInstructions adds to the flow: a TrialHandler of nReps
\* MAX_INSTRUCTIONS over one undefined trial, four tasks scheduled per trial
GenerateInstructionsLoop ==
    /\ ipc.task = "generate"
    /\ ipc' = IF TrialsScheduled > 0
              THEN [trial |-> 1, task |-> "begin"]
              ELSE [trial |-> 0, task |-> "done"]
    /\ last' = Step("_generateInstructionsLoop", NEXT)
    /\ UNCHANGED <<keyBuffer, instructionsCache, currInstr, slideFinished, image>>
    /\ UNCHANGED surveyVars

\* _InstructionsRoutineBegin(instructionsName); resources[currentIndex] of an
\* index outside the list is undefined, and reading its name throws
InstructionsRoutineBegin ==
    /\ ipc.task = "begin"
    /\ currInstr' = InstrName
    /\ LET e == instructionsCache[InstrName]
       IN  IF e.currentIndex \in 0..(Len(e.resources) - 1)
           THEN /\ image' = [image |-> e.resources[e.currentIndex + 1].name,
                             autoDraw |-> TRUE]
                /\ slideFinished' = FALSE
                /\ ipc' = [ipc EXCEPT !.task = "frame"]
                /\ last' = Step("_InstructionsRoutineBegin", NEXT)
           ELSE /\ ipc' = [ipc EXCEPT !.task = "error"]
                /\ last' = Step("_InstructionsRoutineBegin", "TypeError")
                /\ UNCHANGED <<image, slideFinished>>
    /\ UNCHANGED <<keyBuffer, instructionsCache>>
    /\ UNCHANGED surveyVars

SlideChange_NextUnbounded(e, finished, key) ==
    IF key = K_n
    THEN [slideFinished |-> TRUE, currentIndex |-> e.currentIndex + 1]
    ELSE IF key = K_b /\ e.currentIndex > 0
    THEN [slideFinished |-> TRUE, currentIndex |-> e.currentIndex - 1]
    ELSE IF key = K_f /\ e.currentIndex = Len(e.resources) - 1
    THEN [slideFinished |-> TRUE, currentIndex |-> -1]
    ELSE [slideFinished |-> finished, currentIndex |-> e.currentIndex]

SlideChange_FinishAnywhere(e, finished, key) ==
    IF key = K_n /\ e.currentIndex < Len(e.resources) - 1
    THEN [slideFinished |-> TRUE, currentIndex |-> e.currentIndex + 1]
    ELSE IF key = K_b /\ e.currentIndex > 0
    THEN [slideFinished |-> TRUE, currentIndex |-> e.currentIndex - 1]
    ELSE IF key = K_f
    THEN [slideFinished |-> TRUE, currentIndex |-> -1]
    ELSE [slideFinished |-> finished, currentIndex |-> e.currentIndex]

\* _InstructionsRoutineEachFrame, the tests on buttonPress[0]: what they make
\* of this.slideFinished and of the position of entry e
SlideChange(e, finished, key) ==
    IF key = K_n /\ e.currentIndex < Len(e.resources) - 1
    THEN [slideFinished |-> TRUE, currentIndex |-> e.currentIndex + 1]
    ELSE IF key = K_b /\ e.currentIndex > 0
    THEN [slideFinished |-> TRUE, currentIndex |-> e.currentIndex - 1]
    ELSE IF key = K_f /\ e.currentIndex = Len(e.resources) - 1
    THEN [slideFinished |-> TRUE, currentIndex |-> -1]
    ELSE [slideFinished |-> finished, currentIndex |-> e.currentIndex]

\* buttonPress[0], undefined when no key of the key list is in the buffer
FirstPressed(buffer) ==
    IF Len(getKeys(buffer, InstrKeys).keys) > 0
    THEN getKeys(buffer, InstrKeys).keys[1] ELSE Undefined

\* _InstructionsRoutineEachFrame(); the history keeps buttonPress[0]
InstructionsRoutineEachFrame ==
    /\ ipc.task = "frame"
    /\ LET buttonPress == getKeys(keyBuffer, InstrKeys)
       IN  IF Len(buttonPress.keys) > 0
           THEN LET c == SlideChange(CurrInstr, slideFinished, buttonPress.keys[1])
                IN  /\ slideFinished' = c.slideFinished
                    /\ instructionsCache' =
                         [instructionsCache EXCEPT
                            ![currInstr].currentIndex = c.currentIndex]
                    /\ keyBuffer' = clearEvents
           ELSE /\ keyBuffer' = buttonPress.rest
                /\ UNCHANGED <<slideFinished, instructionsCache>>
    /\ ipc' = IF slideFinished' THEN [ipc EXCEPT !.task = "end"] ELSE ipc
    /\ last' = [Step("_InstructionsRoutineEachFrame",
                     IF slideFinished' THEN NEXT ELSE FLIP_REPEAT)
                 EXCEPT !.category = FirstPressed(keyBuffer)]
    /\ UNCHANGED <<currInstr, image>>
    /\ UNCHANGED surveyVars

\* _InstructionsRoutineEnd()
InstructionsRoutineEnd ==
    /\ ipc.task = "end"
    /\ image' = [image EXCEPT !.autoDraw = FALSE]
    /\ ipc' = [ipc EXCEPT !.task = "check"]
    /\ last' = Step("_InstructionsRoutineEnd", NEXT)
    /\ UNCHANGED <<keyBuffer, instructionsCache, currInstr, slideFinished>>
    /\ UNCHANGED surveyVars

EndConditionMet_Never == FALSE

\* the test of the fourth task of a trial
EndConditionMet == CurrInstr.currentIndex = -1

\* the fourth task of a trial: scheduler.stop() ends the instructions
\* scheduler before its next task; after the last trial it has no task left
InstructionsEndCondition ==
    /\ ipc.task = "check"
    /\ ipc' = IF EndConditionMet \/ ipc.trial >= TrialsScheduled
              THEN [ipc EXCEPT !.task = "done"]
              ELSE [trial |-> ipc.trial + 1, task |-> "begin"]
    /\ last' = Step("endCondition", NEXT)
    /\ UNCHANGED <<keyBuffer, instructionsCache, currInstr, slideFinished, image>>
    /\ UNCHANGED surveyVars

\* an experiment of one instruction set of 1 to MaxSlides slides
InstrInit ==
    /\ SurveyConstructed
    /\ \E n \in 1..MaxSlides :
          InstructionsConstructed(
              [name \in {InstrName} |-> CacheEntry(Slides(n))])

InstrNext ==
    \/ InstrKeyPress
    \/ GenerateInstructionsLoop
    \/ InstructionsRoutineBegin
    \/ InstructionsRoutineEachFrame
    \/ InstructionsRoutineEnd
    \/ InstructionsEndCondition

InstrSpec == InstrInit /\ [][InstrNext]_vars

\* the scheduler runs its current task at every frame
InstrFairSpec ==
    /\ InstrSpec
    /\ WF_vars(GenerateInstructionsLoop)
    /\ WF_vars(InstructionsRoutineBegin)
    /\ WF_vars(InstructionsRoutineEachFrame)
    /\ WF_vars(InstructionsRoutineEnd)
    /\ WF_vars(InstructionsEndCondition)

-----------------------------------------------------------------------------
(* The claims *)

None == <<"n","o","n","e">>

\* a step that runs the named task of the current question
BeginRuns == pc.task = "begin" /\ last'.task = "_SurveyQuestionBegin"
LoopRuns == pc.task = "loop" /\ last'.task = "_SurveyQuestionLoop"
EndRuns == pc.task = "end" /\ last'.task = "_SurveyQuestionEnd"

\* the category of the scheduled question, from the survey resource
ScheduledCategory == Flow[pc.run].set \o <<"_">> \o ScheduledQuestion.index

Categories(calls) == [i \in DOMAIN calls |-> calls[i].category]

\* C1: when _SurveyQuestionBegin reaches, while Skipping, the question whose
\* index is the skip target, it clears the target, sets the status back to
\* Continuing and runs the question normally.
C1_SkipResumesAtTarget ==
    [][ ( /\ BeginRuns
          /\ survey_run_status = SURVEY_SKIPPING
          /\ ScheduledQuestion.index = skipIndex )
        => ( /\ skipIndex' = None
             /\ survey_run_status' = SURVEY_CONTINUING
             /\ trialStage' = 0
             /\ currentData' # currentData
             /\ begun' = Append(begun, ScheduledCategory) ) ]_vars

\* C2: while Skipping and the question is not the skip target, Begin, Loop and
\* End each advance at once: no key is read, the stage and the record are not
\* touched, nothing is made visible and nothing is handed to the sink.
C2_SkippedQuestionIsInert ==
    [][ ( /\ (BeginRuns \/ LoopRuns \/ EndRuns)
          /\ survey_run_status = SURVEY_SKIPPING
          /\ ScheduledQuestion.index # skipIndex )
        => ( /\ last'.event = NEXT
             /\ pc'.task = (CASE pc.task = "begin" -> "loop"
                              [] pc.task = "loop" -> "end"
                              [] OTHER -> "finish")
             /\ keyBuffer' = keyBuffer
             /\ trialStage' = trialStage
             /\ currentData' = currentData
             /\ question' = question
             /\ discrete' = discrete
             /\ continuous' = continuous
             /\ sink' = sink
             /\ begun' = begun
             /\ survey_run_status' = SURVEY_SKIPPING ) ]_vars

C2_Witness ==
    /\ pc.task = "finish"
    /\ last.task = "_SurveyQuestionEnd"
    /\ survey_run_status = SURVEY_SKIPPING
    /\ ScheduledQuestion.index # skipIndex
    /\ begun # <<>>
    /\ begun[Len(begun)] # ScheduledCategory

C3_Inv ==
    /\ \A i, j \in DOMAIN sink : i # j => sink[i].category # sink[j].category
    /\ begun = IF pc.task \in {"loop", "end"} /\ survey_run_status # SURVEY_SKIPPING
               THEN Append(Categories(sink), ScheduledCategory)
               ELSE Categories(sink)

C3_Act ==
    sink' # sink =>
        /\ EndRuns
        /\ trialStage = -1
        /\ Len(sink') = Len(sink) + 1
        /\ SubSeq(sink', 1, Len(sink)) = sink
        /\ sink'[Len(sink')].category = ScheduledCategory
        /\ last'.category = ScheduledCategory
        /\ last'.data = currentData
        /\ currentData.question_index = ScheduledQuestion.index

\* C3: every question visited with status not Skipping causes exactly one
\* hand-off to the data sink, made in _SurveyQuestionEnd after the question's
\* state machine reached Done, under the category surveySet_questionIndex; no
\* question is recorded twice and none before Done.
C3_OneHandOffPerVisitedQuestion == []C3_Inv /\ [][C3_Act]_vars

C3_Witness ==
    /\ pc.task = "finish"
    /\ last.task = "_SurveyQuestionEnd"
    /\ last.data # UndefinedObject
    /\ Len(sink) = 3
    /\ survey_run_status = SURVEY_CONTINUING

\* C4: the record handed to the sink has a specify list as long as the number
\* of answers captured in the question minus one, whatever the input kinds.
C4_SpecifyLengthIsHops ==
    (last.task = "_SurveyQuestionEnd" /\ last.data # UndefinedObject)
        => Len(last.data.specify) = nAnswers - 1

C5_Inv ==
    /\ survey_run_status = SURVEY_SKIPPING
         => (begun # <<>> /\ begun = Categories(sink))
    /\ survey_run_status = SURVEY_BEGIN_SKIP
         => (pc.task \in {"loop", "end"} /\ trialStage = -1)

C5_Act ==
    (EndRuns /\ survey_run_status = SURVEY_BEGIN_SKIP) =>
        /\ survey_run_status' = SURVEY_SKIPPING
        /\ sink' # sink
        /\ sink'[Len(sink')].category = ScheduledCategory
        /\ last'.data = currentData
        /\ currentData.question_index = ScheduledQuestion.index
        /\ currentData.choice # Null

\* C5: the question whose answer triggers a skip is itself recorded: its
\* _SurveyQuestionEnd turns BeginSkip into Skipping and still hands the record
\* to the sink; the suppression starts with the next question.
C5_SkipTriggerIsRecorded == []C5_Inv /\ [][C5_Act]_vars

C5_Witness ==
    /\ pc.task = "finish"
    /\ last.task = "_SurveyQuestionEnd"
    /\ survey_run_status = SURVEY_SKIPPING
    /\ last.data # UndefinedObject
    /\ last.data.question_index = ScheduledQuestion.index
    /\ skipIndex # None

\* C6: a poll in the Displaying stage leaves the stage (to Done, or to stage 0
\* for a specify follow-up) exactly when the time elapsed since the answer is
\* at least the survey's linger; an earlier poll leaves the stage, the input
\* and the record unchanged.
C6_Linger ==
    [][ (LoopRuns /\ trialStage = DISPLAY_RESPONSE) =>
          IF clock >= Flow[pc.run].linger
          THEN trialStage' = (IF specify = <<>> THEN -1 ELSE 0)
          ELSE /\ trialStage' = DISPLAY_RESPONSE
               /\ discrete' = discrete
               /\ continuous' = continuous
               /\ currentInput' = currentInput
               /\ currentData' = currentData
               /\ last'.event = FLIP_REPEAT ]_vars

C6_Witness ==
    /\ pc.task = "loop"
    /\ last.task = "_SurveyQuestionLoop"
    /\ last.stage = DISPLAY_RESPONSE
    /\ trialStage = -1
    /\ clock = Flow[pc.run].linger
    /\ Flow[pc.run].linger = 2

\* C7: in the Awaiting-Discrete stage, a poll whose key snapshot holds no key
\* of the built options leaves the stage, the record, the pending specify and
\* skip and the status unchanged, hands nothing to the sink and signals repeat.
C7_UnmappedKeyIgnored ==
    [][ ( /\ LoopRuns
          /\ survey_run_status # SURVEY_SKIPPING
          /\ trialStage = TAKING_DISCRETE
          /\ \A i \in DOMAIN keyBuffer :
               \A j \in DOMAIN discrete.stimuli :
                 keyBuffer[i] # discrete.stimuli[j].key )
        => ( /\ trialStage' = TAKING_DISCRETE
             /\ currentData' = currentData
             /\ specify' = specify
             /\ skipIndex' = skipIndex
             /\ survey_run_status' = survey_run_status
             /\ sink' = sink
             /\ pc' = pc
             /\ last'.event = FLIP_REPEAT ) ]_vars

C7_Witness ==
    /\ pc.task = "loop"
    /\ last.task = "_SurveyQuestionLoop"
    /\ last.stage = TAKING_DISCRETE
    /\ trialStage = TAKING_DISCRETE
    /\ keyBuffer = <<K_enter, K_1>>

\* the keys of a snapshot applied one after the other, up to a submit key
RECURSIVE InOrder(_, _)
InOrder(c, keys) ==
    IF keys = <<>>
    THEN [input |-> c, submitted |-> FALSE]
    ELSE IF Head(keys) = K_return \/ Head(keys) = K_enter
    THEN [input |-> c, submitted |-> TRUE]
    ELSE InOrder(keyIn(c, Head(keys)), Tail(keys))

\* C8: a poll in the Awaiting-Continuous stage processes the keys of its
\* snapshot in order: each key before a submit key is applied by keyIn, and a
\* submit key at any position finalizes the answer in that poll.
C8_KeysAppliedInOrder ==
    [][ ( /\ LoopRuns
          /\ survey_run_status # SURVEY_SKIPPING
          /\ trialStage = TAKING_CONTINUOUS )
        => LET r == InOrder(continuous,
                            getKeys(keyBuffer, ContinuousGetKeys(continuous)).keys)
           IN  /\ continuous'.text = r.input.text
               /\ (trialStage' = DISPLAY_RESPONSE) = r.submitted ]_vars

C9_Inv == Len(continuous.text) <= continuous.maxLength

C9_Act ==
    ( /\ LoopRuns
      /\ survey_run_status # SURVEY_SKIPPING
      /\ trialStage = TAKING_CONTINUOUS
      /\ Len(getKeys(keyBuffer, ContinuousGetKeys(continuous)).keys) = 1 )
    => LET k == getKeys(keyBuffer, ContinuousGetKeys(continuous)).keys[1]
           text == continuous.text
       IN  CASE k = K_backspace ->
                  continuous'.text =
                    IF text = <<>> THEN <<>> ELSE SubSeq(text, 1, Len(text) - 1)
             [] k \in {K_enter, K_return} -> continuous'.text = text
             [] OTHER ->
                  IF Len(text) = continuous.maxLength
                  THEN continuous'.text = text
                  ELSE Len(continuous'.text) = Len(text) + 1

\* C9: the text of a built ContinuousInput is never longer than maxLength: a
\* key other than backspace changes nothing at maxLength, backspace removes the
\* last character and changes nothing on the empty text.
C9_TextWithinMaxLength == []C9_Inv /\ [][C9_Act]_vars

C9_Witness ==
    /\ pc.task = "loop"
    /\ last.task = "_SurveyQuestionLoop"
    /\ last.stage = TAKING_CONTINUOUS
    /\ trialStage = TAKING_CONTINUOUS
    /\ continuous.maxLength = 2
    /\ continuous.text = <<"A", "B">>

\* the specify entry whose key equals the text when the case of both is ignored
FindIgnoringCase(list, text) ==
    LET hits == SelectSeq(list,
                    LAMBDA el : toLowerCase(el.key) = toLowerCase(text))
    IN  IF Len(hits) = 0 THEN <<>> ELSE <<hits[1]>>

\* C10: a submit returns the text as value and, as specify, the entry whose
\* key matches the text case-insensitively, in whatever case the key is
\* written in the survey; no specify when none matches.
C10_SubmitMatchesIgnoringCase ==
    (pc.task = "loop" /\ trialStage = DISPLAY_RESPONSE /\ currentInput = "CONTINUOUS")
        => /\ specify = FindIgnoringCase(continuous.specify, continuous.text)
           /\ continuous.text =
                IF currentData.specify = <<>>
                THEN currentData.value
                ELSE currentData.specify[Len(currentData.specify)].value

-----------------------------------------------------------------------------
\* the survey run that starts after a run that ended while Skipping
StartsAfterSkippingRun ==
    /\ pc.task = "start"
    /\ survey_run_status = SURVEY_SKIPPING

C11_Inv ==
    pc.task = "begin" /\ pc.qi = 1 => survey_run_status = SURVEY_CONTINUING

C11_Act ==
    survey_run_status' # survey_run_status =>
        \/ /\ survey_run_status = UndefinedNum
           /\ pc.task = "beginSurveySection"
           /\ survey_run_status' = SURVEY_CONTINUING
        \/ /\ survey_run_status = SURVEY_CONTINUING
           /\ survey_run_status' = SURVEY_BEGIN_SKIP
           /\ LoopRuns
           /\ trialStage = DISPLAY_RESPONSE
           /\ skipIndex # None
           /\ specify = <<>>
           /\ trialStage' = -1
        \/ /\ survey_run_status = SURVEY_BEGIN_SKIP
           /\ survey_run_status' = SURVEY_SKIPPING
           /\ EndRuns
        \/ /\ survey_run_status = SURVEY_SKIPPING
           /\ survey_run_status' = SURVEY_CONTINUING
           /\ \/ BeginRuns /\ ScheduledQuestion.index = skipIndex
              \/ StartsAfterSkippingRun

\* C11: survey_run_status changes only from Continuing to BeginSkip (a poll
\* of the Displaying stage that finishes a question with a skip target and no
\* pending specify), from BeginSkip to Skipping (that question's End) and from
\* Skipping to Continuing (Begin at the skip target, or the start of the next
\* survey run); before that it is set once, to Continuing.  It is Continuing
\* whenever the first question of a survey run is about to begin.
C11_StatusLifecycle == []C11_Inv /\ [][C11_Act]_vars

\* the first question of the second run is about to begin after a run that
\* handed off its first question only: it ended while Skipping
C11_Witness ==
    /\ pc = [run |-> 2, qi |-> 1, task |-> "begin"]
    /\ Len(sink) = 1
    /\ survey_run_status = SURVEY_CONTINUING

-----------------------------------------------------------------------------
\* a question with a discrete primary input whose answer is recorded and
\* whose follow-up, a continuous input, is the first of its specify chain
InContinuousFollowUp ==
    /\ pc.task = "loop"
    /\ survey_run_status # SURVEY_SKIPPING
    /\ ScheduledQuestion.input.type = "DISCRETE"
    /\ currentInput = "CONTINUOUS"
    /\ nAnswers = 1

\* the primary key press of a discrete question: choice and display value
C12_Primary ==
    /\ LoopRuns
    /\ trialStage = TAKING_DISCRETE
    /\ nAnswers = 0
    /\ getKeys(keyBuffer, CurrentInputGetKeys).keys # <<>>
    => LET k == getKeys(keyBuffer, CurrentInputGetKeys).keys[1]
           shown == Find(ScheduledQuestion.input.inputs, k)
       IN  /\ currentData'.choice = k
           /\ currentData'.value = shown[1].value
           /\ currentData'.specify = <<>>
           /\ nAnswers' = 1

\* linger expiry with a continuous follow-up pending: it is built, and the
\* question goes on
C12_FollowUpAppears ==
    /\ LoopRuns
    /\ trialStage = DISPLAY_RESPONSE
    /\ nAnswers = 1
    /\ clock >= Flow[pc.run].linger
    /\ specify # <<>>
    /\ specify[1].input.type = "CONTINUOUS"
    => /\ pc' = pc
       /\ sink' = sink
       /\ trialStage' = 0
       /\ question'.text = specify[1].question
       /\ currentInput' = "CONTINUOUS"
       /\ continuous'.text = <<>>
       /\ currentData' = currentData

\* one text key in a poll of the follow-up: its upper case joins the text
C12_Typing ==
    /\ InContinuousFollowUp
    /\ LoopRuns
    /\ trialStage = TAKING_CONTINUOUS
    /\ Len(getKeys(keyBuffer, CurrentInputGetKeys).keys) = 1
    /\ getKeys(keyBuffer, CurrentInputGetKeys).keys[1] \in {K_a, K_b}
    /\ Len(continuous.text) < continuous.maxLength
    => /\ continuous'.text =
            continuous.text \o
            toUpperCase(getKeys(keyBuffer, CurrentInputGetKeys).keys[1])
       /\ currentData' = currentData

\* enter alone in a poll of the follow-up: one specify entry, primary kept
C12_Submit ==
    /\ InContinuousFollowUp
    /\ LoopRuns
    /\ trialStage = TAKING_CONTINUOUS
    /\ getKeys(keyBuffer, CurrentInputGetKeys).keys = <<K_enter>>
    => /\ currentData' =
            [currentData EXCEPT !.specify =
                << [question |-> question.text, choice |-> Undefined,
                    RT |-> clock, value |-> continuous.text] >>]
       /\ nAnswers' = 2
       /\ trialStage' = DISPLAY_RESPONSE

\* the hand-off after a follow-up answer that asks nothing more
C12_HandOff ==
    /\ EndRuns
    /\ ScheduledQuestion.input.type = "DISCRETE"
    /\ currentInput = "CONTINUOUS"
    /\ nAnswers = 2
    => /\ Len(sink') = Len(sink) + 1
       /\ last'.data = currentData
       /\ currentData.choice \in {K_a, K_b}
       /\ Len(currentData.specify) = 1
       /\ currentData.specify[1].choice = Undefined

\* linger expiry after the follow-up answer, nothing more to ask: the
\* question is done
C12_Ends ==
    /\ LoopRuns
    /\ ScheduledQuestion.input.type = "DISCRETE"
    /\ currentInput = "CONTINUOUS"
    /\ trialStage = DISPLAY_RESPONSE
    /\ nAnswers = 2
    /\ clock >= Flow[pc.run].linger
    /\ specify = <<>>
    => trialStage' = -1 /\ currentData' = currentData

\* C12: on a discrete question whose chosen option has a continuous specify
\* follow-up, the key press records choice and display value; at linger
\* expiry the follow-up is built and the question goes on; each text key
\* polled alone appends its upper case to the text; enter appends exactly
\* one specify entry with choice undefined and the text as value; the
\* question then hands off one record holding both answers.
C12_DiscreteThenContinuous ==
    [][C12_Primary /\ C12_FollowUpAppears /\ C12_Typing /\ C12_Submit
        /\ C12_Ends /\ C12_HandOff]_vars

\* question A_1 about to hand off the answer "a" with the follow-up "B"
C12_Witness ==
    /\ pc = [run |-> 1, qi |-> 1, task |-> "end"]
    /\ nAnswers = 2
    /\ currentData.choice = K_a
    /\ currentData.value = <<"Y">>
    /\ Len(currentData.specify) = 1
    /\ currentData.specify[1].value = <<"B">>
    /\ currentData.specify[1].choice = Undefined

-----------------------------------------------------------------------------
\* the stages between a selection and the next round of input: the answer
\* is on display, or the question is done
AfterSelection == trialStage \in {DISPLAY_RESPONSE, -1}

\* C13: a key still buffered after a selection, or pressed while the answer
\* lingers or the question is done, is never read by a later input stage:
\* the stages after a selection are left only for stage 0 of a specify
\* follow-up or of the next question that runs, and that step empties the
\* key buffer.
C13_PendingInputCleared ==
    [][AfterSelection /\ ~AfterSelection'
         => trialStage' = 0 /\ keyBuffer' = <<>>]_vars

\* a key pressed during the linger of an answer whose follow-up is pending
C13_Witness ==
    /\ trialStage = DISPLAY_RESPONSE
    /\ specify # <<>>
    /\ LingerOver
    /\ last.task = "keypress"
    /\ keyBuffer # <<>>

-----------------------------------------------------------------------------
\* a step that runs a poll of the slide on display
EachFrameRuns ==
    ipc.task = "frame" /\ last'.task = "_InstructionsRoutineEachFrame"

\* the position of the instruction set, and its last position
Position == instructionsCache[InstrName].currentIndex
LastSlide == Len(instructionsCache[InstrName].resources) - 1

\* a poll that leaves the position and the slide on display as they are
SlideStays ==
    /\ Position' = Position
    /\ slideFinished' = FALSE
    /\ ipc' = ipc
    /\ image' = image
    /\ last'.event = FLIP_REPEAT

C14_Inv == Position \in 0..LastSlide \/ Position = -1

C14_Act ==
    /\ EachFrameRuns /\ FirstPressed(keyBuffer) = K_n /\ Position = LastSlide
         => SlideStays
    /\ EachFrameRuns /\ FirstPressed(keyBuffer) = K_b /\ Position = 0
         => SlideStays

\* C14: the position of the stepper is always one of 0 .. length-1 or the
\* sentinel -1; a poll whose first pressed key is "n" at the last slide, or
\* "b" at the first slide, leaves the position as it is and does not end the
\* slide.
C14_PositionInvariant == []C14_Inv /\ [][C14_Act]_vars

\* "n" was just polled at the last of several slides, which stays on display
C14_Witness ==
    /\ ipc.task = "frame"
    /\ last.task = "_InstructionsRoutineEachFrame"
    /\ last.category = K_n
    /\ LastSlide > 0
    /\ Position = LastSlide
    /\ image.autoDraw

\* C15: the position becomes the sentinel -1 only by a poll whose first
\* pressed key is "f" while the position is the last slide; a poll whose
\* first pressed key is "f" at another slide leaves position and slide as
\* they are.
C15_FinishOnlyAtLastSlide ==
    [][/\ Position' = -1 /\ Position # -1
            => /\ EachFrameRuns
               /\ FirstPressed(keyBuffer) = K_f
               /\ Position = LastSlide
       /\ EachFrameRuns /\ FirstPressed(keyBuffer) = K_f /\ Position # LastSlide
            => SlideStays]_vars

\* "f" was just accepted at the last of several slides
C15_Witness ==
    /\ Position = -1
    /\ LastSlide > 0
    /\ last.task = "_InstructionsRoutineEachFrame"
    /\ last.category = K_f

C16_Inv ==
    /\ ipc.task # "error"
    /\ Position = -1 => /\ ipc.task \in {"end", "check", "done"}
                        /\ ipc.task # "end" => ~image.autoDraw
    /\ ipc.task = "frame" => image.autoDraw /\ Position \in 0..LastSlide

C16_Act ==
    /\ Position' = -1 /\ Position # -1
         => slideFinished' /\ ipc' = [ipc EXCEPT !.task = "end"]
    /\ Position = -1 /\ last'.task = "_InstructionsRoutineEnd"
         => ~image'.autoDraw /\ ipc' = [ipc EXCEPT !.task = "check"]
    /\ Position = -1 /\ last'.task = "endCondition"
         => ipc' = [ipc EXCEPT !.task = "done"]
    /\ ipc.task = "done" => UNCHANGED instrVars

\* C16: once the position is the sentinel, the slide's routine ends, its End
\* hides the image, the fourth task stops the scheduler, and no task of the
\* instruction set runs after that: no slide routine begins, or shows a
\* slide, with position -1; and all this does happen.
C16_TerminatesAtSentinel ==
    /\ []C16_Inv
    /\ [][C16_Act]_vars
    /\ (Position = -1) ~> (ipc.task = "done" /\ ~image.autoDraw)

\* the instructions scheduler stopped by the sentinel in its first trials
C16_Witness ==
    /\ Position = -1
    /\ ipc.task = "done"
    /\ ipc.trial < MAX_INSTRUCTIONS
    /\ ~image.autoDraw

-----------------------------------------------------------------------------
\* every skip target of the survey is the index of one of its questions
SkipTargetsPresent(survey) ==
    \A i \in 1..Len(survey.questions) :
        \A j \in 1..Len(survey.questions[i].input.skips) :
            \E k \in 1..Len(survey.questions) :
                survey.questions[k].index =
                    survey.questions[i].input.skips[j].index

\* C17: a survey with a skip target that is the index of none of its
\* questions is rejected when it is loaded: its scheduler never gets past
\* the task that loads it, to the instructions gate or to a question.
C17_MalformedSurveyRejected ==
    SkipTargetsPresent(Flow[pc.run]) \/ pc.task = "generate"

\* the instructions gate has been polled and is still closed
GateWaits ==
    /\ pc.task = "start"
    /\ last.task = "_SurveyDisplayInstructions"

C18_Inv ==
    GateWaits /\ Flow[pc.run].instructions # <<>>
        => /\ question.text = Flow[pc.run].instructions
           /\ question.autoDraw

C18_Act ==
    pc.task = "start" /\ pc'.task = "begin"
        => IF Flow[pc.run].instructions = <<>>
           THEN ~GateWaits /\ keyBuffer' = keyBuffer
           ELSE getKeys(keyBuffer, <<K_enter, K_return>>).keys # <<>>

\* C18: while the gate of a survey with instructions waits, the instructions
\* are on display, and the first question's Begin is reached only by a poll
\* that reads enter or return; a survey without instructions passes the gate
\* at its first poll, which leaves the key buffer alone.
C18_InstructionsGate == []C18_Inv /\ [][C18_Act]_vars

\* C19: reset() applied twice to the discrete or to the continuous input
\* gives what reset() applied once gives: every option hidden in the resting
\* colour, the text empty and hidden.
C19_ResetIdempotent ==
    /\ DiscreteReset(DiscreteReset(discrete)) = DiscreteReset(discrete)
    /\ \A i \in 1..Len(discrete.stimuli) :
          /\ ~DiscreteReset(discrete).stimuli[i].autoDraw
          /\ DiscreteReset(discrete).stimuli[i].color = unactivatedColor
    /\ ContinuousReset(ContinuousReset(continuous)) = ContinuousReset(continuous)
    /\ ContinuousReset(continuous).text = <<>>
    /\ ~ContinuousReset(continuous).autoDraw

\* a selected option is on display in the activated colour, the text input
\* is built, and reset() is the next call on the discrete input
C19_Witness ==
    /\ pc.task = "loop"
    /\ trialStage = DISPLAY_RESPONSE
    /\ currentInput = "DISCRETE"
    /\ LingerOver
    /\ continuous.maxLength > 0
    /\ \E i \in 1..Len(discrete.stimuli) :
          discrete.stimuli[i].autoDraw /\ discrete.stimuli[i].color = activatedColor

\* C20: the first answer captured in a question sets choice, RT (the time
\* since the question began) and value and leaves the specify list alone;
\* every later answer leaves choice, RT and value alone and adds one entry to
\* the specify list.
C20_PrimaryAnswerKept ==
    [][LoopRuns /\ nAnswers' = nAnswers + 1
         => IF nAnswers = 0
            THEN /\ currentData'.RT = clock
                 /\ currentData'.specify = currentData.specify
            ELSE /\ currentData'.choice = currentData.choice
                 /\ currentData'.RT = currentData.RT
                 /\ currentData'.value = currentData.value
                 /\ Len(currentData'.specify) = Len(currentData.specify) + 1]_vars

-----------------------------------------------------------------------------
\* a question that runs holds a skip target captured by one of its answers
SkipPending ==
    /\ pc.task = "loop"
    /\ survey_run_status # SURVEY_SKIPPING
    /\ nAnswers > 0
    /\ skipIndex # None

\* the last hop of the question's chain is over: nothing more to specify and
\* the linger of the last answer has expired
LastHopOver ==
    /\ trialStage = DISPLAY_RESPONSE
    /\ specify = <<>>
    /\ LingerOver

C21_Inv ==
    SkipPending /\ trialStage # -1 => survey_run_status = SURVEY_CONTINUING

C21_Act ==
    SkipPending /\ LoopRuns /\ trialStage # -1
      => /\ skipIndex' = skipIndex
         /\ survey_run_status' =
              IF LastHopOver THEN SURVEY_BEGIN_SKIP ELSE SURVEY_CONTINUING
         /\ trialStage = TAKING_DISCRETE
            /\ getKeys(keyBuffer, CurrentInputGetKeys).keys # <<>>
              => nAnswers' = nAnswers + 1 /\ trialStage' = DISPLAY_RESPONSE

-----------------------------------------------------------------------------
C23_Inv ==
    survey_run_status = SURVEY_BEGIN_SKIP
        => /\ pc.task \in {"loop", "end"}
           /\ trialStage = -1

C23_Act ==
    /\ survey_run_status' = SURVEY_BEGIN_SKIP /\ survey_run_status # SURVEY_BEGIN_SKIP
         => LoopRuns /\ trialStage = DISPLAY_RESPONSE /\ trialStage' = -1
    /\ survey_run_status = SURVEY_BEGIN_SKIP /\ EndRuns
         => survey_run_status' = SURVEY_SKIPPING
    /\ survey_run_status = SURVEY_BEGIN_SKIP /\ survey_run_status' # SURVEY_BEGIN_SKIP
         => EndRuns /\ pc'.run = pc.run /\ pc'.qi = pc.qi

\* C23: while the status is BeginSkip the scheduler is at the Loop or the End
\* of a question that is done, never at a Begin or at a stage that awaits
\* input; the status becomes BeginSkip only by the poll that takes a question
\* from Displaying to Done, and it stops being BeginSkip only by the End of
\* that same question, which makes it Skipping.
C23_BeginSkipTransient == []C23_Inv /\ [][C23_Act]_vars

\* a question is done with a skip that begins, its End is the next task
C23_Witness ==
    /\ survey_run_status = SURVEY_BEGIN_SKIP
    /\ pc.task = "end"
    /\ skipIndex = <<"3">>

-----------------------------------------------------------------------------
\* the instructions of the survey have been assigned to the prompt: its gate
\* has been polled before
GateShown ==
    /\ pc.task = "start"
    /\ question.text = Flow[pc.run].instructions

\* C24: the gate of a survey with instructions is never released by its
\* first poll: the keys that poll finds in the buffer were all pressed
\* before the instructions were shown.
C24_StaleEnterIgnored ==
    [][/\ pc.task = "start"
       /\ pc'.task = "begin"
       /\ Flow[pc.run].instructions # <<>>
       => GateShown]_vars

-----------------------------------------------------------------------------
\* a step that runs the fourth task of a slide routine
EndConditionRuns == ipc.task = "check" /\ last'.task = "endCondition"

C25_Inv ==
    /\ ipc.trial <= MAX_INSTRUCTIONS
    /\ ipc.task = "done" => Position = -1 \/ ipc.trial = MAX_INSTRUCTIONS

C25_Act ==
    /\ ipc'.trial # ipc.trial => ipc'.trial = ipc.trial + 1
    /\ EndConditionRuns /\ ipc.trial = MAX_INSTRUCTIONS
         => ipc'.task = "done"
    /\ ipc.task = "done" => UNCHANGED instrVars

\* C25: an instruction set runs at most MAX_INSTRUCTIONS slide routines, one
\* per accepted move; the fourth task of the last one ends the instructions
\* scheduler whatever the position is, and nothing of the set runs after it.
C25_RunBounded == []C25_Inv /\ [][C25_Act]_vars

\* the instructions ended after MAX_INSTRUCTIONS slide routines, the
\* position being a slide and not the sentinel
C25_Witness ==
    /\ ipc = [trial |-> MAX_INSTRUCTIONS, task |-> "done"]
    /\ Position # -1
    /\ ~image.autoDraw

-----------------------------------------------------------------------------
\* the flow waits for a key: at the section text, at the instructions gate
\* of a survey, or at an input stage of a question
Awaiting ==
    \/ pc.task = "beginSurveySection"
    \/ pc.task = "start" /\ Flow[pc.run].instructions # <<>>
    \/ /\ pc.task = "loop"
       /\ survey_run_status # SURVEY_SKIPPING
       /\ trialStage \in {TAKING_DISCRETE, TAKING_CONTINUOUS}

\* the next poll finds a legal key: enter or return at the section text and
\* at a gate, an option key at a discrete stage, a submit key first at a
\* continuous stage
LegalKeyPending ==
    IF pc.task = "loop"
    THEN LET input == getKeys(keyBuffer, CurrentInputGetKeys).keys
         IN  /\ input # <<>>
             /\ trialStage = TAKING_CONTINUOUS => input[1] \in {K_enter, K_return}
    ELSE getKeys(keyBuffer, <<K_enter, K_return>>).keys # <<>>

\* the runs of the flow whose survey is well-formed
WellFormedRuns == {r \in 1..Len(Flow) : SkipTargetsPresent(Flow[r])}

\* a task of a question that runs while Skipping never waits
C22_SkippingNeverWaits ==
    survey_run_status = SURVEY_SKIPPING /\ (BeginRuns \/ LoopRuns \/ EndRuns)
        => last'.event = NEXT /\ pc' # pc

\* the flow leaves a question only when its iteration is finished, for the
\* next question of the list, and a run only after its last question
C22_QuestionsInOrder ==
    /\ pc'.run = pc.run /\ pc'.qi # pc.qi
         => /\ pc'.qi = pc.qi + 1
            /\ pc.task = IF pc.qi = 0 THEN "start" ELSE "finish"
    /\ pc'.run # pc.run
         => /\ pc'.run = pc.run + 1
            /\ pc.task = "finish"
            /\ pc.qi = Len(Flow[pc.run].questions)

\* C22: if every wait for a key is followed by a legal key in the buffer,
\* then, the scheduler running and time passing, the flow gets past the last
\* question of every well-formed survey, and it gets there only through the
\* finished iteration of every question in turn; while Skipping, every task
\* of a question returns NEXT at once.
C22_SurveyProgress ==
    /\ [][C22_SkippingNeverWaits /\ C22_QuestionsInOrder]_vars
    /\ (Awaiting ~> LegalKeyPending)
         => <>(pc.run \notin WellFormedRuns \/ pc.task = "done")

\* both well-formed surveys are over, every question of theirs handed off
C22_Witness ==
    /\ pc = [run |-> 3, qi |-> 0, task |-> "generate"]
    /\ Len(sink) = 5

====
